---- MODULE Spec2Model ----
(***************************************************************************)
(* Model of HWs/HW2/visualize.py: the DataSet helper (coordinate-to-index  *)
(* mapping, region masks, mesh extraction) and the Visualize driver        *)
(* (construction of the dataset catalog, populate_frame,                   *)
(* animate_from_frames).                                                   *)
(*                                                                         *)
(* Coordinates are fixed-point numbers: an integer x stands for the value  *)
(* x / Unit degrees.  With Unit a power of two every modelled coordinate    *)
(* is exactly representable as a Python float, so the integer arithmetic   *)
(* below is the arithmetic the interpreter performs.                       *)
(***************************************************************************)
EXTENDS Integers, Sequences, FiniteSets, TLC

VARIABLES pc, ctor, vis, work, args, call, ret

vars == <<pc, ctor, vis, work, args, call, ret>>

-----------------------------------------------------------------------------
(* Bounds of the model *)

\* coordinates are multiples of 1/Unit degree
Unit == 8
\* declared step count of the datasets other than the first one
MaxSteps == 2

-----------------------------------------------------------------------------
(* Python values *)

\* Python's None and a present value; arguments defaulting to None are
\* either None or Some(v)
None == <<>>
Some(v) == <<v>>

max(a, b) == IF a >= b THEN a ELSE b
min(a, b) == IF a <= b THEN a ELSE b

\* int(n / d) for d > 0: truncation toward zero
int(n, d) == IF n >= 0 THEN n \div d ELSE -((-n) \div d)

slice(start, stop) == [start |-> start, stop |-> stop]

\* one bound of a slice normalised against a sequence of length n
\* (a negative bound counts from the end, then the bound is clipped)
SliceBound(i, n) == IF i < 0 THEN max(i + n, 0) ELSE min(i, n)

\* len(seq[s]) for a sequence of length n and a slice s with step 1
SliceLen(s, n) == max(SliceBound(s.stop, n) - SliceBound(s.start, n), 0)

\* seq[i] is defined for -n <= i < n
IndexOk(i, n) == -n <= i /\ i < n

-----------------------------------------------------------------------------
(* class DataSet *)

DataSet(array, time_steps, data_var) ==
    [array |-> array, time_steps |-> time_steps, data_var |-> data_var]

to_lat_index_flat(lat) == int((90 * Unit + lat) * 4, Unit)

to_lat_index_wide(lat) == int((180 * Unit - lat) * 4, Unit)

to_lat_index(lat) == int((90 * Unit - lat) * 4, Unit)

to_lon_index(lon) == int((lon + 180 * Unit) * 4, Unit)

get_mask_noclamp(lat, lon, dlat, dlon) ==
    LET lat_min == max(lat - dlat, -90 * Unit)
        lat_max == lat + dlat
        lon_min == max(lon - dlon, -180 * Unit)
        lon_max == lon + dlon
    IN  [latmask |-> slice(to_lat_index(lat_max), to_lat_index(lat_min)),
         lonmask |-> slice(to_lon_index(lon_min), to_lon_index(lon_max))]

get_mask_swapped(lat, lon, dlat, dlon) ==
    LET lat_min == max(lat - dlat, -90 * Unit)
        lat_max == min(lat + dlat, 90 * Unit)
        lon_min == max(lon - dlon, -180 * Unit)
        lon_max == min(lon + dlon, 180 * Unit)
    IN  [latmask |-> slice(to_lat_index(lat_min), to_lat_index(lat_max)),
         lonmask |-> slice(to_lon_index(lon_min), to_lon_index(lon_max))]

get_mask(lat, lon, dlat, dlon) ==
    LET lat_min == max(lat - dlat, -90 * Unit)
        lat_max == min(lat + dlat, 90 * Unit)
        lon_min == max(lon - dlon, -180 * Unit)
        lon_max == min(lon + dlon, 180 * Unit)
    IN  [latmask |-> slice(to_lat_index(lat_max), to_lat_index(lat_min)),
         lonmask |-> slice(to_lon_index(lon_min), to_lon_index(lon_max))]

\* the outcome of a call: the exception raised ("" when the call returned)
\* and the returned values
Raise(msg) ==
    [error |-> msg, latmesh |-> None, lonmesh |-> None, fieldmesh |-> None,
     latmask |-> None, lonmask |-> None, index |-> None]

NoReturn == Raise("")

ReturnMesh(latmesh, lonmesh, fieldmesh) ==
    [NoReturn EXCEPT !.latmesh = Some(latmesh), !.lonmesh = Some(lonmesh),
                     !.fieldmesh = fieldmesh]

ReturnMask(m) ==
    [NoReturn EXCEPT !.latmask = Some(m.latmask), !.lonmask = Some(m.lonmask)]

ReturnIndex(i) == [NoReturn EXCEPT !.index = Some(i)]

OutOfBound == "[DataSet-ERROR] time step out of bound"
Ambiguous == "[DataSet-ERROR] region information ambiguous"
IndexError == "IndexError"

\* A decoded array is known by its shape: the lengths of the latitude and
\* longitude coordinates and the (time, latitude, longitude) shape of the
\* data variable.  Meshes are known by their lengths and shapes.
getMesh_strict(self, time_step, lat, lon, dlat, dlon) ==
    IF time_step > self.time_steps THEN Raise(OutOfBound)
    ELSE IF lat # None /\ lon # None /\ dlat # None /\ dlon # None THEN
        LET m == get_mask(lat[1], lon[1], dlat[1], dlon[1])
        IN  IF ~IndexOk(time_step, self.array.field[1]) THEN Raise(IndexError)
            ELSE ReturnMesh(SliceLen(m.latmask, self.array.latitude),
                            SliceLen(m.lonmask, self.array.longitude),
                            <<SliceLen(m.latmask, self.array.field[2]),
                              SliceLen(m.lonmask, self.array.field[3])>>)
    ELSE IF lat = None /\ lon = None /\ dlat = None /\ dlon = None THEN
        IF ~IndexOk(time_step, self.array.field[1]) THEN Raise(IndexError)
        ELSE ReturnMesh(self.array.latitude, self.array.longitude,
                        <<self.array.field[2], self.array.field[3]>>)
    ELSE Raise(Ambiguous)

\* "if lat and lon and dlat and dlon": a supplied 0 counts as absent
getMesh_truthy(self, time_step, lat, lon, dlat, dlon) ==
    IF time_step >= self.time_steps THEN Raise(OutOfBound)
    ELSE IF lat \notin {None, Some(0)} /\ lon \notin {None, Some(0)}
            /\ dlat \notin {None, Some(0)} /\ dlon \notin {None, Some(0)} THEN
        LET m == get_mask(lat[1], lon[1], dlat[1], dlon[1])
        IN  IF ~IndexOk(time_step, self.array.field[1]) THEN Raise(IndexError)
            ELSE ReturnMesh(SliceLen(m.latmask, self.array.latitude),
                            SliceLen(m.lonmask, self.array.longitude),
                            <<SliceLen(m.latmask, self.array.field[2]),
                              SliceLen(m.lonmask, self.array.field[3])>>)
    ELSE IF lat = None /\ lon = None /\ dlat = None /\ dlon = None THEN
        IF ~IndexOk(time_step, self.array.field[1]) THEN Raise(IndexError)
        ELSE ReturnMesh(self.array.latitude, self.array.longitude,
                        <<self.array.field[2], self.array.field[3]>>)
    ELSE Raise(Ambiguous)

\* the field indexed [lonmask, latmask]
getMesh_transposed(self, time_step, lat, lon, dlat, dlon) ==
    IF time_step >= self.time_steps THEN Raise(OutOfBound)
    ELSE IF lat # None /\ lon # None /\ dlat # None /\ dlon # None THEN
        LET m == get_mask(lat[1], lon[1], dlat[1], dlon[1])
        IN  IF ~IndexOk(time_step, self.array.field[1]) THEN Raise(IndexError)
            ELSE ReturnMesh(SliceLen(m.latmask, self.array.latitude),
                            SliceLen(m.lonmask, self.array.longitude),
                            <<SliceLen(m.lonmask, self.array.field[2]),
                              SliceLen(m.latmask, self.array.field[3])>>)
    ELSE IF lat = None /\ lon = None /\ dlat = None /\ dlon = None THEN
        IF ~IndexOk(time_step, self.array.field[1]) THEN Raise(IndexError)
        ELSE ReturnMesh(self.array.latitude, self.array.longitude,
                        <<self.array.field[2], self.array.field[3]>>)
    ELSE Raise(Ambiguous)

getMesh(self, time_step, lat, lon, dlat, dlon) ==
    IF time_step >= self.time_steps THEN Raise(OutOfBound)
    ELSE IF lat # None /\ lon # None /\ dlat # None /\ dlon # None THEN
        LET m == get_mask(lat[1], lon[1], dlat[1], dlon[1])
        IN  IF ~IndexOk(time_step, self.array.field[1]) THEN Raise(IndexError)
            ELSE ReturnMesh(SliceLen(m.latmask, self.array.latitude),
                            SliceLen(m.lonmask, self.array.longitude),
                            <<SliceLen(m.latmask, self.array.field[2]),
                              SliceLen(m.lonmask, self.array.field[3])>>)
    ELSE IF lat = None /\ lon = None /\ dlat = None /\ dlon = None THEN
        IF ~IndexOk(time_step, self.array.field[1]) THEN Raise(IndexError)
        ELSE ReturnMesh(self.array.latitude, self.array.longitude,
                        <<self.array.field[2], self.array.field[3]>>)
    ELSE Raise(Ambiguous)

-----------------------------------------------------------------------------
(* class Visualize *)

AttributeError == "AttributeError"
TypeError == "TypeError"
KeyError == "KeyError"
DecodeError == "[decoder] dataset cannot be opened"
ModeNotSupported == "[Visualize-ERROR] Mode not supported !"
ScalarCount == "[Visualizer-ERROR] Incorrect number of datasets for scalar mode"
VectorCount == "[Visualizer-ERROR] Incorrect number of datasets for vector mode"

\* the collaborators' operations: directory creation, decoding, rendering a
\* frame, reading a frame, encoding the animation
Mkdir == "os.mkdir"
OpenDataset == "xr.open_dataset"
Savefig == "plt.savefig"
Imread == "imageio.imread"
Mimsave == "imageio.mimsave"

Range(seq) == {seq[i] : i \in 1..Len(seq)}

\* The constructor.  data_paths is the sequence of the dictionary's keys in
\* iteration order, time_steps is None or Some(mapping); array is the shape
\* the decoder yields and bad the position of the entry the decoder fails
\* on (0: none).  The result is the exception raised ("" for none), the
\* object (bound by the caller only when nothing was raised) and the
\* collaborators used.
Visualize_init_default(data_paths, mode, time_steps, array, bad) ==
    LET n == Len(data_paths)
        Failing == {i \in 1..n : \/ i = bad
                                 \/ /\ time_steps # None
                                    /\ data_paths[i] \notin DOMAIN time_steps[1]}
        first == CHOOSE i \in Failing : \A j \in Failing : i <= j
        time_step(name) == 1
        self == [datasets |-> [name \in Range(data_paths) |->
                                   DataSet(array, time_step(name), name)],
                 size |-> n,
                 task_name |-> "test",
                 time_steps |-> time_steps,
                 projection |-> "PlateCarree",
                 out_dir |-> "outputs/test",
                 frame_dir |-> "outputs/test/frame",
                 anim_dir |-> "outputs/test/animation"]
    IN  IF mode # "scalar" /\ mode # "vector"
        THEN [error |-> ModeNotSupported, self |-> None, work |-> {Mkdir}]
        ELSE IF Failing # {}
        THEN [error |-> IF first = bad THEN DecodeError ELSE KeyError,
              self |-> None, work |-> {Mkdir, OpenDataset}]
        ELSE [error |-> "", self |-> self,
              work |-> IF n = 0 THEN {Mkdir} ELSE {Mkdir, OpenDataset}]

Visualize_init(data_paths, mode, time_steps, array, bad) ==
    LET n == Len(data_paths)
        Failing == {i \in 1..n : \/ i = bad
                                 \/ /\ time_steps # None
                                    /\ data_paths[i] \notin DOMAIN time_steps[1]}
        first == CHOOSE i \in Failing : \A j \in Failing : i <= j
        time_step(name) == IF time_steps = None THEN 1 ELSE time_steps[1][name]
        self == [datasets |-> [name \in Range(data_paths) |->
                                   DataSet(array, time_step(name), name)],
                 size |-> n,
                 task_name |-> "test",
                 time_steps |-> time_steps,
                 projection |-> "PlateCarree",
                 out_dir |-> "outputs/test",
                 frame_dir |-> "outputs/test/frame",
                 anim_dir |-> "outputs/test/animation"]
    IN  IF mode # "scalar" /\ mode # "vector"
        THEN [error |-> ModeNotSupported, self |-> None, work |-> {Mkdir}]
        ELSE IF Failing # {}
        THEN [error |-> IF first = bad THEN DecodeError ELSE KeyError,
              self |-> None, work |-> {Mkdir, OpenDataset}]
        ELSE [error |-> "", self |-> self,
              work |-> IF n = 0 THEN {Mkdir} ELSE {Mkdir, OpenDataset}]

\* populate_frame reads self.mode first; every path raises before a frame
\* is rendered: a missing attribute, a wrong dataset count, or the
\* subscript of a dict_keys view
populate_frame(self, lat, lon, dlat, dlon) ==
    IF "mode" \notin DOMAIN self THEN Raise(AttributeError)
    ELSE IF self.mode = "scalar" THEN
        IF Cardinality(DOMAIN self.datasets) # 1 THEN Raise(ScalarCount)
        ELSE Raise(TypeError)
    ELSE
        IF Cardinality(DOMAIN self.datasets) # 3 THEN Raise(VectorCount)
        ELSE Raise(TypeError)

animate_from_frames(self) ==
    IF "mode" \notin DOMAIN self THEN Raise(AttributeError)
    ELSE IF self.mode = "scalar" THEN
        IF Cardinality(DOMAIN self.datasets) # 1 THEN Raise(ScalarCount)
        ELSE Raise(TypeError)
    ELSE
        IF Cardinality(DOMAIN self.datasets) # 3 THEN Raise(VectorCount)
        ELSE Raise(TypeError)

-----------------------------------------------------------------------------
(* Inputs *)

\* the usage example declares 24 time steps for "u100"
DeclaredSteps == 24

Names == <<"u100", "v100", "w100">>

DataPathsArgs ==
    {SubSeq(Names, 1, k) : k \in 0..Len(Names)} \cup {<<"v100">>}

ModeArgs == {"scalar", "vector", "contour"}

TimeStepsArgs ==
    {None,
     Some([name \in {"u100"} |-> DeclaredSteps]),
     Some([name \in Range(Names) |->
              IF name = "u100" THEN DeclaredSteps ELSE MaxSteps])}

\* shapes of the decoded array: 0.25 degree rows from 90 to -90, columns
\* with or without the closing meridian, one layer or a day of layers
Arrays ==
    {[latitude |-> 180 * 4 + 1, longitude |-> cols,
      field |-> <<layers, 180 * 4 + 1, cols>>] :
         cols \in {360 * 4, 360 * 4 + 1}, layers \in {1, DeclaredSteps}}

TimeStepArgs ==
    {-1, 0, 1, MaxSteps, DeclaredSteps - 1, DeclaredSteps, DeclaredSteps + 1}

Opt(S) == {None} \cup {Some(v) : v \in S}

RegionArgs ==
    [lat : Opt({0, 40 * Unit, 100 * Unit}),
     lon : Opt({0, -90 * Unit, 179 * Unit}),
     dlat : Opt({0, 10 * Unit, -5 * Unit}),
     dlon : Opt({0, 5 * Unit + 1})]

NoCall == [op |-> "", name |-> "", time_step |-> 0]

-----------------------------------------------------------------------------
(* The driver: construction, then any sequence of calls *)

Init ==
    /\ pc = "unbuilt"
    /\ ctor \in [data_paths : DataPathsArgs, mode : ModeArgs,
                 time_steps : TimeStepsArgs]
    /\ vis = None
    /\ work = {}
    /\ args \in RegionArgs
    /\ call = NoCall
    /\ ret = NoReturn

Construct ==
    /\ pc = "unbuilt"
    /\ \E array \in Arrays, bad \in 0..Len(ctor.data_paths) :
         LET r == Visualize_init(ctor.data_paths, ctor.mode, ctor.time_steps,
                                 array, bad)
         IN  /\ pc' = IF r.error = "" THEN "built" ELSE "failed"
             /\ vis' = r.self
             /\ work' = work \cup r.work
             /\ ret' = Raise(r.error)
    /\ call' = [NoCall EXCEPT !.op = "Visualize"]
    /\ UNCHANGED <<ctor, args>>

GetMeshCall ==
    /\ pc = "built"
    /\ \E name \in DOMAIN vis.datasets, time_step \in TimeStepArgs :
         /\ call' = [op |-> "getMesh", name |-> name, time_step |-> time_step]
         /\ ret' = getMesh(vis.datasets[name], time_step,
                           args.lat, args.lon, args.dlat, args.dlon)
    /\ UNCHANGED <<pc, ctor, vis, work, args>>

PopulateFrameCall ==
    /\ pc = "built"
    /\ call' = [NoCall EXCEPT !.op = "populate_frame"]
    /\ ret' = populate_frame(vis, args.lat, args.lon, args.dlat, args.dlon)
    /\ UNCHANGED <<pc, ctor, vis, work, args>>

AnimateFromFramesCall ==
    /\ pc = "built"
    /\ call' = [NoCall EXCEPT !.op = "animate_from_frames"]
    /\ ret' = animate_from_frames(vis)
    /\ UNCHANGED <<pc, ctor, vis, work, args>>

Next ==
    \/ Construct
    \/ GetMeshCall
    \/ PopulateFrameCall
    \/ AnimateFromFramesCall

Spec == Init /\ [][Next]_vars

-----------------------------------------------------------------------------
(* DataSet.get_mask and the index conversions on their own: the object of  *)
(* the usage example, its methods called directly                          *)

UsageExample ==
    Visualize_init(<<"u100">>, "scalar",
                   Some([name \in {"u100"} |-> DeclaredSteps]),
                   CHOOSE a \in Arrays :
                       a.longitude = 360 * 4 /\ a.field[1] = DeclaredSteps,
                   0)

InitBuilt ==
    /\ pc = "built"
    /\ ctor = [data_paths |-> <<"u100">>, mode |-> "scalar",
               time_steps |-> Some([name \in {"u100"} |-> DeclaredSteps])]
    /\ vis = UsageExample.self
    /\ work = UsageExample.work
    /\ call = NoCall
    /\ ret = NoReturn

\* whole degrees and a fraction of a cell off them
Off(Degrees) == {d * Unit + o : d \in Degrees, o \in {0, 3}}

MaskArgs ==
    [lat : {Some(v) : v \in Off({-100, -90, -45, 0, 40, 89, 90, 100})},
     lon : {Some(v) : v \in Off({-190, -180, -90, 0, 179, 180, 190})},
     dlat : {Some(v) : v \in {0, 1, 10 * Unit, 95 * Unit, 180 * Unit,
                              400 * Unit, -5 * Unit}},
     dlon : {Some(v) : v \in {0, 1, 5 * Unit, 10 * Unit, 360 * Unit,
                              400 * Unit, -5 * Unit}}]

InitMask == InitBuilt /\ args \in MaskArgs

GetMaskCall ==
    /\ pc = "built"
    /\ args.lat # None /\ args.lon # None
    /\ args.dlat # None /\ args.dlon # None
    /\ \E name \in DOMAIN vis.datasets :
         call' = [NoCall EXCEPT !.op = "get_mask", !.name = name]
    /\ ret' = ReturnMask(get_mask(args.lat[1], args.lon[1],
                                  args.dlat[1], args.dlon[1]))
    /\ UNCHANGED <<pc, ctor, vis, work, args>>

NextMask == GetMaskCall

SpecMask == InitMask /\ [][NextMask]_vars

\* one coordinate at a time, every multiple of 1/Unit degree in and around
\* the global extent
IndexArgs ==
    {[lat |-> Some(v), lon |-> None, dlat |-> None, dlon |-> None] :
        v \in (-100 * Unit)..(100 * Unit)}
    \cup
    {[lat |-> None, lon |-> Some(v), dlat |-> None, dlon |-> None] :
        v \in (-190 * Unit)..(190 * Unit)}

InitIndex == InitBuilt /\ args \in IndexArgs

ToLatIndexCall ==
    /\ pc = "built"
    /\ args.lat # None
    /\ \E name \in DOMAIN vis.datasets :
         call' = [NoCall EXCEPT !.op = "to_lat_index", !.name = name]
    /\ ret' = ReturnIndex(to_lat_index(args.lat[1]))
    /\ UNCHANGED <<pc, ctor, vis, work, args>>

ToLonIndexCall ==
    /\ pc = "built"
    /\ args.lon # None
    /\ \E name \in DOMAIN vis.datasets :
         call' = [NoCall EXCEPT !.op = "to_lon_index", !.name = name]
    /\ ret' = ReturnIndex(to_lon_index(args.lon[1]))
    /\ UNCHANGED <<pc, ctor, vis, work, args>>

NextIndex == ToLatIndexCall \/ ToLonIndexCall

SpecIndex == InitIndex /\ [][NextIndex]_vars

-----------------------------------------------------------------------------
(* Properties *)

Declared == vis.datasets[call.name].time_steps

Supplied == Cardinality({k \in {"lat", "lon", "dlat", "dlon"} : args[k] # None})

\* C1: getMesh called with time_step >= the dataset's declared step count
\* raises the out-of-bound error and returns no mesh, whatever the region
\* arguments are.
OutOfRangeRejected ==
    (call.op = "getMesh" /\ call.time_step >= Declared)
        => /\ ret.error = OutOfBound
           /\ ret.latmesh = None /\ ret.lonmesh = None /\ ret.fieldmesh = None

OutOfRangeWitness ==
    /\ call.op = "getMesh"
    /\ Declared = DeclaredSteps /\ call.time_step = DeclaredSteps
    /\ Supplied = 0
    /\ ret.error = OutOfBound

\* C2: with a time step below the declared count, getMesh given one, two or
\* three of lat, lon, dlat, dlon (any values, 0 included) raises the
\* ambiguous-region error; given none or all four it does not.
PartialRegionRejected ==
    (call.op = "getMesh" /\ call.time_step < Declared)
        => /\ Supplied \in 1..3 => ret.error = Ambiguous
           /\ Supplied \in {0, 4} => ret.error # Ambiguous

PartialRegionWitness ==
    /\ call.op = "getMesh" /\ call.time_step < Declared
    /\ Supplied = 3 /\ args.dlat = None
    /\ args.lat = Some(0) /\ args.lon = Some(0) /\ args.dlon = Some(0)
    /\ ret.error = Ambiguous

MaskCalled == call.op = "get_mask"

CenterInside ==
    /\ -90 * Unit <= args.lat[1] /\ args.lat[1] <= 90 * Unit
    /\ -180 * Unit <= args.lon[1] /\ args.lon[1] <= 180 * Unit

\* C4: for every call of get_mask, start and stop of the row range lie in
\* 0..720 and start and stop of the column range lie in 0..1440.
MaskWithinGrid ==
    MaskCalled
        => /\ {ret.latmask[1].start, ret.latmask[1].stop} \subseteq 0..(180 * 4)
           /\ {ret.lonmask[1].start, ret.lonmask[1].stop} \subseteq 0..(360 * 4)

\* C5 as stated: for lat in [-90, 90] the row index lies in 0..90*4, and for
\* lon in [-180, 180] the column index lies in 0..360*4.
IndexBoundAsStated ==
    /\ (call.op = "to_lat_index" /\ -90 * Unit <= args.lat[1]
                                 /\ args.lat[1] <= 90 * Unit)
           => ret.index[1] \in 0..(90 * 4)
    /\ (call.op = "to_lon_index" /\ -180 * Unit <= args.lon[1]
                                 /\ args.lon[1] <= 180 * Unit)
           => ret.index[1] \in 0..(360 * 4)

\* C5 amended: for lat in [-90, 90] the row index lies in 0..180*4, and for
\* lon in [-180, 180] the column index lies in 0..360*4.
IndexBound ==
    /\ (call.op = "to_lat_index" /\ -90 * Unit <= args.lat[1]
                                 /\ args.lat[1] <= 90 * Unit)
           => ret.index[1] \in 0..(180 * 4)
    /\ (call.op = "to_lon_index" /\ -180 * Unit <= args.lon[1]
                                 /\ args.lon[1] <= 180 * Unit)
           => ret.index[1] \in 0..(360 * 4)

IndexBoundWitness ==
    /\ call.op = "to_lat_index"
    /\ args.lat = Some(-90 * Unit)
    /\ ret.index = Some(180 * 4)

\* C6: with the center inside the global extent, half-extents reaching both
\* edges of an axis give that axis the range of the whole extent, rows
\* 0..720 and columns 0..1440, however much larger they are.
ClampSaturates ==
    (MaskCalled /\ CenterInside)
        => /\ (/\ args.lat[1] + args.dlat[1] >= 90 * Unit
               /\ args.lat[1] - args.dlat[1] <= -90 * Unit)
                  => ret.latmask[1] = slice(0, 180 * 4)
           /\ (/\ args.lon[1] + args.dlon[1] >= 180 * Unit
               /\ args.lon[1] - args.dlon[1] <= -180 * Unit)
                  => ret.lonmask[1] = slice(0, 360 * 4)

ClampSaturatesWitness ==
    /\ MaskCalled /\ CenterInside
    /\ args.lat = Some(40 * Unit) /\ args.dlat = Some(400 * Unit)
    /\ args.lon = Some(179 * Unit + 3) /\ args.dlon = Some(360 * Unit)
    /\ ret.latmask = Some(slice(0, 180 * 4))
    /\ ret.lonmask = Some(slice(0, 360 * 4))

\* C7: get_mask returns rows from the index of the clamped northern edge to
\* the index of the clamped southern edge and columns from the index of the
\* clamped western edge to the index of the clamped eastern edge; for
\* center (40, -90) and half-extents (10, 10) these are the rows of
\* latitudes 50 down to 30 and the columns of longitudes -100 to -80,
\* inside [0, 720) x [0, 1440).
MaskRanges ==
    MaskCalled
        => /\ ret.latmask[1].start =
                  int((90 * Unit - min(args.lat[1] + args.dlat[1], 90 * Unit)) * 4, Unit)
           /\ ret.latmask[1].stop =
                  int((90 * Unit - max(args.lat[1] - args.dlat[1], -90 * Unit)) * 4, Unit)
           /\ ret.lonmask[1].start =
                  int((max(args.lon[1] - args.dlon[1], -180 * Unit) + 180 * Unit) * 4, Unit)
           /\ ret.lonmask[1].stop =
                  int((min(args.lon[1] + args.dlon[1], 180 * Unit) + 180 * Unit) * 4, Unit)
           /\ (/\ args.lat = Some(40 * Unit) /\ args.lon = Some(-90 * Unit)
               /\ args.dlat = Some(10 * Unit) /\ args.dlon = Some(10 * Unit))
                  => /\ ret.latmask[1] = slice((90 - 50) * 4, (90 - 30) * 4)
                     /\ ret.lonmask[1] = slice((-100 + 180) * 4, (-80 + 180) * 4)
                     /\ ret.latmask[1].stop < 720
                     /\ ret.lonmask[1].stop < 1440

MaskRangesWitness ==
    /\ MaskCalled
    /\ args.lat = Some(40 * Unit) /\ args.lon = Some(-90 * Unit)
    /\ args.dlat = Some(10 * Unit) /\ args.dlon = Some(10 * Unit)
    /\ ret.latmask = Some(slice(160, 240))
    /\ ret.lonmask = Some(slice(320, 400))

Rendering == {Savefig, Imread, Mimsave}

\* C8: populate_frame or animate_from_frames on an object whose number of
\* datasets is not the one its mode requires (1 for scalar, 3 for vector)
\* raises the dataset-count error of that mode, and no frame has been
\* rendered, read or encoded.
CountMismatchRejected ==
    (/\ call.op \in {"populate_frame", "animate_from_frames"}
     /\ Len(ctor.data_paths) # (IF ctor.mode = "scalar" THEN 1 ELSE 3))
        => /\ ret.error = (IF ctor.mode = "scalar" THEN ScalarCount
                                                   ELSE VectorCount)
           /\ work \cap Rendering = {}

CatalogAsBuilt ==
    pc = "built"
        => /\ DOMAIN vis.datasets = Range(ctor.data_paths)
           /\ \A name \in DOMAIN vis.datasets :
                  vis.datasets[name].time_steps =
                      (IF ctor.time_steps = None THEN 1
                       ELSE ctor.time_steps[1][name])

\* C9: once the constructor has completed, the catalog holds exactly the
\* names of data_paths, each with time_steps[name] declared steps (1 when
\* no mapping was given), and no later call changes any entry.
CatalogFrozen ==
    [][pc' = "built"
          => /\ CatalogAsBuilt'
             /\ pc = "built" => vis'.datasets = vis.datasets]_vars

CatalogFrozenWitness ==
    /\ pc = "built"
    /\ call.op \in {"getMesh", "populate_frame", "animate_from_frames"}
    /\ Len(ctor.data_paths) = 3
    /\ ctor.time_steps # None
    /\ vis.datasets["u100"].time_steps = DeclaredSteps
    /\ vis.datasets["w100"].time_steps = MaxSteps

\* C10: with the center inside the global extent and non-negative
\* half-extents, get_mask returns start <= stop for rows and for columns;
\* a region past the 180 degree meridian (center 179, half-width 5) ends at
\* the last column, and a zero half-extent gives start = stop.
MaskNotInverted ==
    (MaskCalled /\ CenterInside /\ args.dlat[1] >= 0 /\ args.dlon[1] >= 0)
        => /\ ret.latmask[1].start <= ret.latmask[1].stop
           /\ ret.lonmask[1].start <= ret.lonmask[1].stop
           /\ args.dlat[1] = 0 => ret.latmask[1].start = ret.latmask[1].stop
           /\ args.dlon[1] = 0 => ret.lonmask[1].start = ret.lonmask[1].stop
           /\ (args.lon = Some(179 * Unit) /\ args.dlon = Some(5 * Unit))
                  => ret.lonmask[1] = slice((179 - 5 + 180) * 4, 360 * 4)

MaskNotInvertedWitness ==
    /\ MaskCalled /\ CenterInside
    /\ args.lon = Some(179 * Unit) /\ args.dlon = Some(5 * Unit)
    /\ args.dlat = Some(0)
    /\ ret.lonmask = Some(slice(1416, 1440))
    /\ ret.latmask[1].start = ret.latmask[1].stop

====
